---- MODULE Spec2Model ----
(***************************************************************************)
(* A model of the FIFO work-queue of work-queue.js: Queue (queue, tid),    *)
(* Task, push / pop / shift / empty / length and the event-driven run      *)
(* loop, together with the demo's completion routine and restart observer. *)
(* One step of the model is one synchronous stretch of JavaScript: a call  *)
(* made by the user of the queue, or the delivery of one 'complete' event  *)
(* with everything its listener calls.  A body that emits 'complete'       *)
(* before it returns takes the same two steps, with nothing in between.    *)
(* Task.label is diagnostic only and is left out.                          *)
(***************************************************************************)
EXTENDS Integers, Sequences, FiniteSets, TLC

(* ------------------------------ bounds --------------------------------- *)
MaxPushes == 2      \* push calls made by the user of the queue
MaxRuns == 2        \* run calls made by the user of the queue
MaxCalls == 2       \* times a body of queue.js invokes the callback it is given

(* --------------------------- JavaScript values ------------------------- *)
Null == "null"
Undefined == "undefined"
ErrX == "errx"                      \* the error object {error: 'x'}
ResR == "r"                         \* some non-null result
NotFn == "notfn"                    \* a truthy value that is not a function

\* the (err, res) pairs a body passes to emit('complete', err, res)
Signals == {[err |-> Null, res |-> ResR], [err |-> ErrX, res |-> Null]}
\* the state object of the k-th run call of the user: a fresh object each time
StateObject(k) == k

\* functions the user may hand to push as `complete`
CompleteFns == {"complete", "noreturn"}
\* functions the user may hand to run as `onStop`
OnStopFns == {"fullCompletion"}
\* a task body that signals after it has returned (the demo's one, which
\* waits for its timers)
AsyncBodyFns == {"body"}
\* the demo's last, which signals before it returns: "last" with its random
\* draw below the threshold (no error), "lastErr" with the draw not below it
LastFns == {"last", "lastErr"}
\* a task body
BodyFns == AsyncBodyFns \cup LastFns

IsFunction(v) == v \in (CompleteFns \cup OnStopFns \cup BodyFns \cup {"default"})

Truthy(v) == v \notin {Null, Undefined, "false"}

(* ------------------------------ state ---------------------------------- *)
VARIABLES
    queue,        \* Queue.queue: the pending tasks, head first
    tid,          \* Queue.tid: the id counter
    listening,    \* tasks in flight: a 'complete' listener is registered
    runs,         \* history: the run invocations, in call order, each with
                  \*          the onStop calls it made
    dispatched,   \* history: the task bodies invoked, in order
    evaluated,    \* history: the task.complete calls made, per task
    removed,      \* history: ids taken out by pop, shift (user) and empty
    thrown,       \* history: number of push calls that failed
    unheard,      \* history: a 'complete' event found no listener
    deepest,      \* history: the most run calls ever on the call stack at once
    cbq,          \* the module of queue.js: its queue and tid, the callbacks
                  \*          handed to bodies, and its histories
    other         \* the Queue object of a second create(): its queue and tid,
                  \*          history: the bodies it invoked

\* the state that is not part of the first Queue object
elsewhere == <<cbq, other>>

vars == <<queue, tid, listening, runs, dispatched, evaluated, removed, thrown,
          unheard, deepest, elsewhere>>

(* ------------------------- completion routines ------------------------- *)
\* fault: the default routine stops on an error
DefaultStopsOnError(state, err, res) == IF Truthy(err) THEN "false" ELSE "true"

\* push's default: function(state, err, res) { return true; }
DefaultComplete(state, err, res) == "true"

\* the demo's complete: return (err ? false : true);
DemoComplete(state, err, res) == IF Truthy(err) THEN "false" ELSE "true"

\* task.complete.call(task, state, err, res)
CallComplete(fn, state, err, res) ==
    CASE fn = "default"  -> DefaultComplete(state, err, res)
      [] fn = "complete" -> DemoComplete(state, err, res)
      [] fn = "noreturn" -> Undefined

\* fault: a missing routine is replaced by one that stops on an error
ChooseStopOnError(complete) ==
    IF Truthy(complete) /\ IsFunction(complete) THEN complete ELSE "complete"

\* complete = (complete && typeof complete === 'function') ? complete : default
ChooseComplete(complete) ==
    IF Truthy(complete) /\ IsFunction(complete) THEN complete ELSE "default"

\* fault: this.tid = queue.tid, the counter is not advanced
TaskKeepsCounter(queueTid, run, complete) ==
    [tid |-> queueTid, run |-> run, complete |-> complete]

\* new Task(queue, run, complete, label): this.tid = ++(queue.tid)
Task(queueTid, run, complete) ==
    [tid |-> queueTid + 1, run |-> run, complete |-> complete]

(* ------------------------- container operations ------------------------ *)
\* fault: the task is taken from the tail
shiftFromTail(q) ==
    IF Len(q) = 0 THEN [ret |-> <<>>, rest |-> q]
                  ELSE [ret |-> <<q[Len(q)]>>, rest |-> SubSeq(q, 1, Len(q) - 1)]

\* fault: the head is read but stays in the array
shiftKeepsHead(q) ==
    IF Len(q) = 0 THEN [ret |-> <<>>, rest |-> q]
                  ELSE [ret |-> <<Head(q)>>, rest |-> q]

\* Array.prototype.shift as used by Queue.prototype.shift
shift(q) ==
    IF Len(q) = 0 THEN [ret |-> <<>>, rest |-> q]
                  ELSE [ret |-> <<Head(q)>>, rest |-> Tail(q)]

\* Array.prototype.pop as used by Queue.prototype.pop
pop(q) ==
    IF Len(q) = 0 THEN [ret |-> <<>>, rest |-> q]
                  ELSE [ret |-> <<q[Len(q)]>>, rest |-> SubSeq(q, 1, Len(q) - 1)]

\* fault: the loop stops one short and spares the head
emptyKeepsHead(q) == IF Len(q) = 0 THEN q ELSE <<Head(q)>>

\* Queue.prototype.empty: while (this.queue.pop());
RECURSIVE empty(_)
empty(q) == IF pop(q).ret # <<>> THEN empty(pop(q).rest) ELSE pop(q).rest

\* fault: the Task is built, and the counter advanced, before run is tested
pushCountsFirst(q, t, run, complete) ==
    LET task == [tid |-> t + 1, run |-> run, complete |-> complete]
    IN  IF ~IsFunction(run)
        THEN [threw |-> TRUE, queue |-> q, tid |-> task.tid]
        ELSE [threw |-> FALSE, queue |-> Append(q, task), tid |-> task.tid]

\* fault: this.queue.unshift(...), the task goes to the head
pushAtHead(q, t, run, complete) ==
    LET task == [tid |-> t + 1, run |-> run, complete |-> complete]
    IN  IF ~IsFunction(run)
        THEN [threw |-> TRUE, queue |-> q, tid |-> t]
        ELSE [threw |-> FALSE, queue |-> <<task>> \o q, tid |-> task.tid]

\* Queue.prototype.push(run, complete, label) on the array q and counter t:
\* what it leaves of both, and whether it threw
push(q, t, run, complete) ==
    IF ~IsFunction(run)
    THEN [threw |-> TRUE, queue |-> q, tid |-> t]
    ELSE LET task == Task(t, run, ChooseComplete(complete))
         IN  [threw |-> FALSE, queue |-> Append(q, task), tid |-> task.tid]

\* Queue.prototype.length
length(q) == Len(q)

Tids(q) == {q[i].tid : i \in 1..Len(q)}

(* ------------------------------ run loop ------------------------------- *)
\* The part of the state the run loop works on.
World == [queue |-> queue, listening |-> listening, runs |-> runs,
          dispatched |-> dispatched, evaluated |-> evaluated,
          unheard |-> unheard,
          depth |-> 0, deepest |-> deepest]

NewRun(w, state, onStop, by) ==
    [w EXCEPT !.runs = Append(@, [state |-> state, onStop |-> onStop,
                                  by |-> by, status |-> "running",
                                  startTid |-> tid,
                                  startLen |-> length(w.queue),
                                  stops |-> <<>>])]

\* fault: stop('emptied', null, null)
EmptiedArgsNull == [err |-> Null, res |-> Null]

\* the arguments stop('emptied') passes on: err and res are left out
EmptiedArgs == [err |-> Undefined, res |-> Undefined]

\* fault: the test is `!task.complete.call(...)`
IsFalsy(ret) == ~Truthy(ret)

\* fault: the test never succeeds
IsNeverFalse(ret) == FALSE

\* the test `task.complete.call(...) === false`
IsFalse(ret) == ret = "false"

RECURSIVE run(_, _, _, _)
RECURSIVE stop(_, _, _, _, _, _, _)
RECURSIVE listener(_, _, _, _)

\* fault: the observer only reports and never calls run again
fullCompletionNoRestart(w, r, type, state, err, res) == w

\* the demo's fullCompletion(type, state, err, res), called with this = queue
fullCompletion(w, r, type, state, err, res) ==
    LET len == length(w.queue)
    IN  IF len > 0
        THEN run(NewRun(w, state, "fullCompletion", "onStop"),
                 Len(w.runs) + 1, state, "fullCompletion")
        ELSE w

\* fault: the observer is called without the error
CallOnStopNoErr(w, r, onStop, type, state, err, res) ==
    LET w1 == [w EXCEPT !.runs[r].stops =
                            Append(@, [type |-> type, state |-> state,
                                       err |-> Null, res |-> res,
                                       len |-> length(w.queue)])]
    IN  IF onStop = "fullCompletion"
        THEN fullCompletion(w1, r, type, state, Null, res)
        ELSE w1

\* onStop.call(self, type, state, err, res)
CallOnStop(w, r, onStop, type, state, err, res) ==
    LET w1 == [w EXCEPT !.runs[r].stops =
                            Append(@, [type |-> type, state |-> state,
                                       err |-> err, res |-> res,
                                       len |-> length(w.queue)])]
    IN  IF onStop = "fullCompletion"
        THEN fullCompletion(w1, r, type, state, err, res)
        ELSE w1

\* fault: a veto also discards the tasks still pending
stopDropsPending(w, r, type, state, onStop, err, res) ==
    LET w1 == [w EXCEPT !.runs[r].status = type,
                        !.queue = IF type = "stopped" THEN <<>> ELSE @]
    IN  IF Truthy(onStop) /\ IsFunction(onStop)
        THEN CallOnStop(w1, r, onStop, type, state, err, res)
        ELSE w1

\* the local function stop(type, err, res) of Queue.prototype.run
stop(w, r, type, state, onStop, err, res) ==
    LET w1 == [w EXCEPT !.runs[r].status = type]
    IN  IF Truthy(onStop) /\ IsFunction(onStop)
        THEN CallOnStop(w1, r, onStop, type, state, err, res)
        ELSE w1

\* fault: run goes on to the next task without waiting for 'complete'
DispatchAndGoOn(w, r, task, rest, state, onStop) ==
    run([w EXCEPT !.queue = rest,
                  !.listening = @ \cup {[task |-> task, run |-> r,
                                         state |-> state, onStop |-> onStop]},
                  !.dispatched = Append(@, [task |-> task, run |-> r,
                                            state |-> state])],
        r, state, onStop)

\* task.emit('complete', err, res): the listener registered for the event,
\* if there is one, is called before emit returns
emit(w, task, err, res) ==
    LET ls == {l \in w.listening : l.task = task}
    IN  IF ls = {}
        THEN [w EXCEPT !.unheard = TRUE]
        ELSE listener(w, CHOOSE l \in ls : TRUE, err, res)

\* task.run.call(task, state): what the body does before it returns
CallBody(w, task, state) ==
    CASE task.run = "last"    -> emit(w, task, Null, ResR)
      [] task.run = "lastErr" -> emit(w, task, ErrX, Null)
      [] OTHER                -> w

\* fault: the body is invoked first and the listener registered afterwards
DispatchBodyFirst(w, r, task, rest, state, onStop) ==
    LET w1 == CallBody([w EXCEPT !.queue = rest,
                                 !.dispatched = Append(@, [task |-> task,
                                                           run |-> r,
                                                           state |-> state])],
                       task, state)
    IN  [w1 EXCEPT !.listening = @ \cup {[task |-> task, run |-> r,
                                          state |-> state,
                                          onStop |-> onStop]}]

\* task.once('complete', ...) followed by task.run.call(task, state)
Dispatch(w, r, task, rest, state, onStop) ==
    CallBody([w EXCEPT !.queue = rest,
                       !.listening = @ \cup {[task |-> task, run |-> r,
                                              state |-> state,
                                              onStop |-> onStop]},
                       !.dispatched = Append(@, [task |-> task, run |-> r,
                                                 state |-> state])],
             task, state)

\* fault: run returns at once while a task of the queue is in flight
runGuarded(w, r, state, onStop) ==
    LET s == shift(w.queue)
    IN  IF w.listening # {}
        THEN w
        ELSE IF s.ret # <<>>
             THEN Dispatch(w, r, s.ret[1], s.rest, state, onStop)
             ELSE stop(w, r, "emptied", state, onStop,
                       EmptiedArgs.err, EmptiedArgs.res)

\* fault: run does nothing when it finds the queue empty
runSilentWhenEmpty(w, r, state, onStop) ==
    LET s == shift(w.queue)
    IN  IF s.ret # <<>>
        THEN Dispatch(w, r, s.ret[1], s.rest, state, onStop)
        ELSE w

\* a call of run is entered: one more frame of run on the call stack
Enter(w) ==
    [w EXCEPT !.depth = @ + 1,
              !.deepest = IF w.depth + 1 > @ THEN w.depth + 1 ELSE @]

\* `return self`: the frame is gone
Leave(w) == [w EXCEPT !.depth = @ - 1]

\* Queue.prototype.run(state, onStop), as invocation r
run(w, r, state, onStop) ==
    LET w0 == Enter(w)
        s  == shift(w0.queue)
    IN  Leave(IF s.ret # <<>>
              THEN Dispatch(w0, r, s.ret[1], s.rest, state, onStop)
              ELSE stop(w0, r, "emptied", state, onStop,
                        EmptiedArgs.err, EmptiedArgs.res))

\* fault: task.on('complete', ...), the listener stays registered
On(ls, l) == ls

\* task.once('complete', ...): the listener is removed when the event arrives
Once(ls, l) == ls \ {l}

\* how often task.complete has been called for task t
Evaluations(ev, t) == Cardinality({e \in ev : e.tid = t})

\* fault: the `return` before stop('stopped', ...) is missing, so the
\* listener goes on to self.run after the observer has been told
listenerFallsThrough(w, l, err, res) ==
    LET ret == CallComplete(l.task.complete, l.state, err, res)
        w1  == [w EXCEPT !.listening = Once(@, l),
                         !.evaluated = @ \cup {[tid |-> l.task.tid,
                                                 nth |-> Evaluations(@, l.task.tid) + 1,
                                                 run |-> l.run,
                                                 state |-> l.state,
                                                 err |-> err, res |-> res,
                                                 ret |-> ret]}]
    IN  IF IsFalse(ret)
        THEN run(stop(w1, l.run, "stopped", l.state, l.onStop, err, res),
                 l.run, l.state, l.onStop)
        ELSE run(w1, l.run, l.state, l.onStop)

\* the one-time 'complete' listener of the in-flight task l
listener(w, l, err, res) ==
    LET ret == CallComplete(l.task.complete, l.state, err, res)
        w1  == [w EXCEPT !.listening = Once(@, l),
                         !.evaluated = @ \cup {[tid |-> l.task.tid,
                                                 nth |-> Evaluations(@, l.task.tid) + 1,
                                                 run |-> l.run,
                                                 state |-> l.state,
                                                 err |-> err, res |-> res,
                                                 ret |-> ret]}]
    IN  IF IsFalse(ret)
        THEN stop(w1, l.run, "stopped", l.state, l.onStop, err, res)
        ELSE run(w1, l.run, l.state, l.onStop)

SetWorld(w) ==
    /\ queue' = w.queue
    /\ listening' = w.listening
    /\ runs' = w.runs
    /\ dispatched' = w.dispatched
    /\ evaluated' = w.evaluated
    /\ unheard' = w.unheard
    /\ deepest' = w.deepest

UserRuns == Cardinality({i \in 1..Len(runs) : runs[i].by = "user"})

(* ------------------------------ actions -------------------------------- *)
Init ==
    /\ queue = <<>>
    /\ tid = 0
    /\ listening = {}
    /\ runs = <<>>
    /\ dispatched = <<>>
    /\ evaluated = {}
    /\ removed = {}
    /\ thrown = 0
    /\ unheard = FALSE
    /\ deepest = 0
    /\ cbq = [queue |-> <<>>, tid |-> 0, held |-> {}, nexts |-> 0,
              calls |-> [t \in 1..MaxPushes |-> 0],
              dispatched |-> <<>>, evaluated |-> {}]
    /\ other = [queue |-> <<>>, tid |-> 0, dispatched |-> <<>>]

\* Queue.prototype.push(run, complete, label)
Push ==
    /\ tid + thrown + other.tid < MaxPushes
    /\ \E body \in AsyncBodyFns \cup {Undefined},
          complete \in CompleteFns \cup {Undefined, NotFn} :
          LET p == push(queue, tid, body, complete)
          IN  /\ queue' = p.queue
              /\ tid' = p.tid
              /\ thrown' = IF p.threw THEN thrown + 1 ELSE thrown
    /\ UNCHANGED <<listening, runs, dispatched, evaluated, removed, unheard,
                   deepest, elsewhere>>

\* Queue.prototype.push(last, complete, label), as the demo does
PushLast ==
    /\ tid + thrown + other.tid < MaxPushes
    /\ \E body \in LastFns, complete \in CompleteFns \cup {Undefined} :
          LET p == push(queue, tid, body, complete)
          IN  /\ queue' = p.queue
              /\ tid' = p.tid
              /\ thrown' = IF p.threw THEN thrown + 1 ELSE thrown
    /\ UNCHANGED <<listening, runs, dispatched, evaluated, removed, unheard,
                   deepest, elsewhere>>

\* Queue.prototype.pop()
Pop ==
    /\ queue' = pop(queue).rest
    /\ removed' = removed \cup Tids(pop(queue).ret)
    /\ UNCHANGED <<tid, listening, runs, dispatched, evaluated, thrown,
                   unheard, deepest, elsewhere>>

\* Queue.prototype.shift(), called by the user
Shift ==
    /\ queue' = shift(queue).rest
    /\ removed' = removed \cup Tids(shift(queue).ret)
    /\ UNCHANGED <<tid, listening, runs, dispatched, evaluated, thrown,
                   unheard, deepest, elsewhere>>

\* Queue.prototype.empty()
Empty ==
    /\ queue' = empty(queue)
    /\ removed' = removed \cup Tids(queue)
    /\ UNCHANGED <<tid, listening, runs, dispatched, evaluated, thrown,
                   unheard, deepest, elsewhere>>

\* Queue.prototype.run(state, onStop), called by the user
Run ==
    /\ UserRuns < MaxRuns
    /\ \E onStop \in OnStopFns \cup {Undefined} :
          LET state == StateObject(UserRuns + 1)
          IN  SetWorld(run(NewRun(World, state, onStop, "user"),
                           Len(runs) + 1, state, onStop))
    /\ UNCHANGED <<tid, removed, thrown, elsewhere>>

\* an in-flight task whose body has returned does
\* this.emit('complete', err, res)
Complete ==
    /\ \E l \in listening, sig \in Signals :
          /\ l.task.run = "body"
          /\ SetWorld(listener(World, l, sig.err, sig.res))
    /\ UNCHANGED <<tid, removed, thrown, elsewhere>>

\* a task that has signalled already does this.emit('complete', err, res)
\* once more
EmitAgain ==
    /\ \E i \in 1..Len(dispatched), sig \in Signals :
          /\ \E e \in evaluated : e.tid = dispatched[i].task.tid
          /\ SetWorld(emit(World, dispatched[i].task, sig.err, sig.res))
    /\ UNCHANGED <<tid, removed, thrown, elsewhere>>

Next == Push \/ Pop \/ Shift \/ Empty \/ Run \/ Complete

\* tasks signal after their bodies have returned, and once
Spec == Init /\ [][Next]_vars

\* tasks may also signal again
EmitSpec == Init /\ [][Next \/ EmitAgain]_vars

\* tasks may also signal before their bodies return
SyncSpec == Init /\ [][Next \/ PushLast]_vars

\* every task in flight signals completion in the end
LiveSpec == Spec /\ WF_vars(Complete)

(* ------------------- queue.js: the callback variant -------------------- *)
\* the variables of the Queue object and its histories
queueVars == <<queue, tid, listening, runs, dispatched, evaluated, removed,
               thrown, unheard, deepest>>

\* addTask(run, complete, label) on the module state c
addTask(c, body, complete) ==
    IF ~IsFunction(body)
    THEN c
    ELSE [c EXCEPT !.queue = Append(@, [tid |-> c.tid + 1, run |-> body,
                                        complete |-> ChooseComplete(complete)]),
                   !.tid = @ + 1]

\* next(state): the head is taken out and its body is invoked with the
\* callback function(err, res), which the body holds from then on
next(c, state) ==
    IF Len(c.queue) > 0 /\ shift(c.queue).ret # <<>>
    THEN LET task == shift(c.queue).ret[1]
         IN  [c EXCEPT !.queue = shift(c.queue).rest,
                       !.held = @ \cup {[task |-> task, state |-> state]},
                       !.dispatched = Append(@, task.tid)]
    ELSE c

\* the callback function(err, res) handed to the body of h.task
callback(c, h, err, res) ==
    LET ret == CallComplete(h.task.complete, h.state, err, res)
        c1  == [c EXCEPT !.evaluated =
                             @ \cup {[tid |-> h.task.tid,
                                      nth |-> Evaluations(@, h.task.tid) + 1,
                                      err |-> err, res |-> res, ret |-> ret]}]
    IN  IF IsFalse(ret) THEN c1 ELSE next(c1, h.state)

\* queue.addTask(run, complete), called by the user
AddTask ==
    /\ cbq.tid < MaxPushes
    /\ \E body \in AsyncBodyFns \cup {Undefined},
          complete \in {"complete", Undefined} :
          cbq' = addTask(cbq, body, complete)
    /\ UNCHANGED <<queueVars, other>>

\* queue.next(state), called by the user
NextCall ==
    /\ cbq.nexts < MaxRuns
    /\ cbq' = next([cbq EXCEPT !.nexts = @ + 1], StateObject(cbq.nexts + 1))
    /\ UNCHANGED <<queueVars, other>>

\* a body that has been invoked calls the callback it was given
Callback ==
    /\ \E h \in cbq.held, sig \in Signals :
          /\ cbq.calls[h.task.tid] < MaxCalls
          /\ cbq' = callback([cbq EXCEPT !.calls[h.task.tid] = @ + 1],
                             h, sig.err, sig.res)
    /\ UNCHANGED <<queueVars, other>>

\* the module of queue.js and its users
CallbackSpec == Init /\ [][AddTask \/ NextCall \/ Callback]_vars

(* --------------------- a second queue from create() -------------------- *)
\* fault: create hands out one module-level queue every time, the way the
\* first half of work-queue.js keeps its queue and tid
createShared(k) == 1

\* create(): the k-th call returns a new Queue object, object k
create(k) == k

\* the Queue object h as its run loop sees it: the first is the object of
\* the variables queue, tid, ..., the second is `other`, whose tasks never
\* stay in flight
WorldOf(h) ==
    IF h = 1
    THEN World
    ELSE [queue |-> other.queue, listening |-> {}, runs |-> <<>>,
          dispatched |-> other.dispatched, evaluated |-> {},
          unheard |-> FALSE, depth |-> 0, deepest |-> 0]

\* what pop, shift and empty leave of the array q
Taken(op, q) ==
    CASE op = "pop"   -> pop(q).rest
      [] op = "shift" -> shift(q).rest
      [] op = "empty" -> empty(q)

\* push(last) through the second handle
PushOther ==
    /\ tid + thrown + other.tid < MaxPushes
    /\ LET h == create(2)
           w == WorldOf(h)
           p == push(w.queue, IF h = 1 THEN tid ELSE other.tid,
                     "last", Undefined)
       IN  IF h = 1
           THEN /\ queue' = p.queue
                /\ tid' = p.tid
                /\ UNCHANGED other
           ELSE /\ other' = [other EXCEPT !.queue = p.queue, !.tid = p.tid]
                /\ UNCHANGED <<queue, tid>>
    /\ UNCHANGED <<listening, runs, dispatched, evaluated, removed, thrown,
                   unheard, deepest, cbq>>

\* pop(), shift() or empty() through the second handle
TakeOther ==
    /\ WorldOf(create(2)).queue # <<>>
    /\ \E op \in {"pop", "shift", "empty"} :
          LET h == create(2)
              rest == Taken(op, WorldOf(h).queue)
          IN  IF h = 1
              THEN /\ queue' = rest
                   /\ removed' = removed \cup (Tids(queue) \ Tids(rest))
                   /\ UNCHANGED other
              ELSE /\ other' = [other EXCEPT !.queue = rest]
                   /\ UNCHANGED <<queue, removed>>
    /\ UNCHANGED <<tid, listening, runs, dispatched, evaluated, thrown,
                   unheard, deepest, cbq>>

\* run(state) through the second handle, when it has something to run
RunOther ==
    /\ WorldOf(create(2)).queue # <<>>
    /\ UserRuns < MaxRuns \/ create(2) # 1
    /\ LET h == create(2)
           state == StateObject(0)
           w == WorldOf(h)
           r == run(NewRun(w, state, Undefined, "user"),
                    Len(w.runs) + 1, state, Undefined)
       IN  IF h = 1
           THEN /\ SetWorld(r)
                /\ UNCHANGED other
           ELSE /\ other' = [other EXCEPT !.queue = r.queue,
                                          !.dispatched = r.dispatched]
                /\ UNCHANGED <<queue, listening, runs, dispatched, evaluated,
                               unheard, deepest>>
    /\ UNCHANGED <<tid, removed, thrown, cbq>>

\* two queues from create() and their users
TwoSpec == Init /\ [][Next \/ PushOther \/ TakeOther \/ RunOther]_vars

(* ------------------------- reading the histories ----------------------- *)
RunIds == 1..Len(runs)

\* the dispatches made by invocation r, in order
DispatchedBy(r) == SelectSeq(dispatched, LAMBDA d : d.run = r)

\* the tasks invocation r has in flight
InFlight(r) == {l \in listening : l.run = r}

\* invocation r was given an onStop observer
Supplied(r) == Truthy(runs[r].onStop) /\ IsFunction(runs[r].onStop)

\* the task.complete calls that returned false
Vetoes == {e \in evaluated : e.ret = "false"}

\* no two invocations ever overlapped, nothing was pushed since invocation r
\* began and nothing was ever removed by pop, shift or empty
Quiet(r) ==
    /\ UserRuns <= 1
    /\ runs[r].startTid = tid
    /\ removed = {}

(* ------------------------------- claims -------------------------------- *)
C1_Scenario ==
    /\ Len(runs) = 1
    /\ Quiet(1)
    /\ \A i \in 1..Len(queue) : queue[i].complete = "default"
    /\ \A i \in 1..Len(dispatched) : dispatched[i].task.complete = "default"
    /\ \A e \in evaluated : e.err = Null

\* C1: when N tasks are pushed with the default routine before a single run
\* call and every task signals a null error, the bodies are invoked once each
\* in push order (dispatch i is task i), the tasks not yet invoked are the
\* later ones, and the invocation can only end as 'emptied' with all N invoked.
C1_FifoExactlyOnce ==
    C1_Scenario =>
        /\ \A i \in 1..Len(dispatched) :
              dispatched[i].task.tid = i /\ dispatched[i].run = 1
        /\ \A i \in 1..Len(queue) : queue[i].tid = Len(dispatched) + i
        /\ runs[1].status # "running" =>
              runs[1].status = "emptied" /\ Len(dispatched) = tid

C1_Witness ==
    /\ C1_Scenario
    /\ Len(dispatched) = 2
    /\ runs[1].status = "emptied"

\* C2: an invocation has at most one task in flight; it invokes a further
\* body only when the one before has signalled and its routine returned
\* something other than false; so with at most one invocation under way at
\* most one body is in flight.
C2_OneInFlight ==
    /\ \A r \in RunIds :
          /\ Cardinality(InFlight(r)) <= 1
          /\ InFlight(r) # {} => runs[r].status = "running"
          /\ LET D == DispatchedBy(r)
             IN  \A i \in 1..(Len(D) - 1) :
                    /\ \E e \in evaluated :
                          e.tid = D[i].task.tid /\ e.run = r /\ e.ret # "false"
                    /\ \A l \in listening : l.task.tid # D[i].task.tid
    /\ Cardinality({r \in RunIds : runs[r].status = "running"}) <= 1
          => Cardinality(listening) <= 1

C2_Witness ==
    /\ Len(runs) = 1
    /\ Len(DispatchedBy(1)) = 2
    /\ Cardinality(InFlight(1)) = 1

\* C3: when the routine of the k-th task invoked by an invocation returns
\* false, that task is the last one the invocation invokes, the invocation is
\* 'stopped', its observer is called once with 'stopped' and that task's err
\* and res, and (nothing pushed or removed meanwhile, no other invocation
\* under way) length() is then N - k, the later tasks pending in push order.
C3_StoppedAtK ==
    \A e \in Vetoes :
        LET r == e.run
            D == DispatchedBy(r)
            k == Len(D)
        IN  /\ k >= 1
            /\ D[k].task.tid = e.tid
            /\ InFlight(r) = {}
            /\ runs[r].status = "stopped"
            /\ Supplied(r) =>
                  /\ Len(runs[r].stops) = 1
                  /\ runs[r].stops[1].type = "stopped"
                  /\ runs[r].stops[1].state = runs[r].state
                  /\ runs[r].stops[1].err = e.err
                  /\ runs[r].stops[1].res = e.res
                  /\ Quiet(r) => runs[r].stops[1].len = runs[r].startLen - k
            /\ (Quiet(r) /\ r = Len(runs)) =>
                  /\ length(queue) = runs[r].startLen - k
                  /\ \A i \in 1..Len(queue) : queue[i].tid = e.tid + i

C3_Witness ==
    \E e \in Vetoes :
        /\ Quiet(e.run)
        /\ Supplied(e.run)
        /\ runs[e.run].startLen = 2
        /\ runs[e.run].stops[1].len = 1

\* C4: an invocation is 'stopped' exactly when a routine returned false: after
\* any other return value, whatever the error signalled, the next head task is
\* invoked by the same invocation, or the queue was empty and it is 'emptied';
\* every body, routine and observer of an invocation gets its state, and the
\* continuation keeps its observer.
C4_StopsIffPolicyFalse ==
    /\ \A r \in RunIds :
          runs[r].status = "stopped" <=> (\E e \in Vetoes : e.run = r)
    /\ \A e \in evaluated \ Vetoes :
          LET D == DispatchedBy(e.run)
          IN  \E i \in 1..Len(D) :
                 /\ D[i].task.tid = e.tid
                 /\ i < Len(D) \/ runs[e.run].status = "emptied"
    /\ \A i \in 1..Len(dispatched) :
          dispatched[i].state = runs[dispatched[i].run].state
    /\ \A e \in evaluated : e.state = runs[e.run].state
    /\ \A l \in listening :
          l.state = runs[l.run].state /\ l.onStop = runs[l.run].onStop
    /\ \A r \in RunIds : \A j \in 1..Len(runs[r].stops) :
          /\ runs[r].stops[j].state = runs[r].state
          /\ runs[r].stops[j].type = "emptied" => runs[r].stops[j].len = 0

C4_Witness ==
    \E e \in evaluated :
        /\ e.err = ErrX
        /\ e.ret = Undefined
        /\ Len(DispatchedBy(e.run)) = 2
        /\ InFlight(e.run) # {}

\* C5: a task pushed with no routine, or with something that is no function,
\* carries the default routine; the default routine returns true for every
\* state, err and res, and an invocation is never stopped by such a task.
C5_DefaultAlwaysContinues ==
    /\ \A c \in {Undefined, NotFn}, sig \in Signals, k \in 1..MaxRuns :
          CallComplete(ChooseComplete(c), StateObject(k), sig.err, sig.res)
              = "true"
    /\ \A i \in 1..Len(queue) : IsFunction(queue[i].complete)
    /\ \A i \in 1..Len(dispatched) :
          dispatched[i].task.complete = "default" =>
              \A e \in evaluated :
                  e.tid = dispatched[i].task.tid =>
                      /\ e.ret = "true"
                      /\ LET D == DispatchedBy(e.run)
                         IN  runs[e.run].status = "stopped"
                                 => D[Len(D)].task.tid # e.tid

C5_Witness ==
    \E i \in 1..Len(dispatched) : \E e \in evaluated :
        /\ dispatched[i].task.complete = "default"
        /\ e.tid = dispatched[i].task.tid
        /\ e.err = ErrX
        /\ Len(DispatchedBy(e.run)) = 2


C6_Scenario ==
    /\ Len(runs) = 1
    /\ Quiet(1)
    /\ tid = 2
    /\ \A i \in 1..Len(queue) : queue[i].complete = "default"
    /\ \A i \in 1..Len(dispatched) : dispatched[i].task.complete = "default"
    /\ \E e \in evaluated : e.tid = 1 /\ e.err = ErrX /\ e.res = Null

\* C6, as claimed: A and B are pushed with the default routine and A signals
\* ({error:'x'}, null); then B is never invoked, the observer is called with
\* ('stopped', state, {error:'x'}, null) and length() is 1.
C6_DefaultStopsOnError ==
    C6_Scenario =>
        /\ Len(dispatched) = 1
        /\ length(queue) = 1
        /\ runs[1].status = "stopped"
        /\ Supplied(1) =>
              /\ Len(runs[1].stops) = 1
              /\ runs[1].stops[1].type = "stopped"
              /\ runs[1].stops[1].err = ErrX
              /\ runs[1].stops[1].res = Null

\* C6, amended: the default routine continues on an error; in that scenario B
\* is invoked next by the same invocation, which is never 'stopped' and whose
\* observer is never called with 'stopped', and length() is 0.
C6_DefaultContinuesOnError ==
    C6_Scenario =>
        /\ Len(dispatched) = 2
        /\ dispatched[2].task.tid = 2 /\ dispatched[2].run = 1
        /\ length(queue) = 0
        /\ runs[1].status # "stopped"
        /\ \A j \in 1..Len(runs[1].stops) : runs[1].stops[j].type = "emptied"

C6_Witness ==
    /\ C6_Scenario
    /\ Supplied(1)
    /\ Len(dispatched) = 2
    /\ runs[1].status = "emptied"

\* what an invocation that found the queue empty has done, with the err and
\* res it hands to the observer
EmptiedWith(r, err, res) ==
    /\ InFlight(r) = {}
    /\ \A i \in 1..Len(dispatched) :
          dispatched[i].run = r =>
              \E e \in evaluated :
                  e.tid = dispatched[i].task.tid /\ e.run = r /\ e.ret # "false"
    /\ ~Supplied(r) => runs[r].stops = <<>>
    /\ Supplied(r) =>
          runs[r].stops = <<[type |-> "emptied", state |-> runs[r].state,
                             err |-> err, res |-> res, len |-> 0]>>

\* C7, as claimed: an invocation that finds the queue empty invokes no body
\* and calls the observer once with ('emptied', state, null, null).
C7_EmptiedWithNull ==
    \A r \in RunIds : runs[r].status = "emptied" => EmptiedWith(r, Null, Null)

\* C7, amended: an invocation that finds the queue empty, at once or after
\* draining it, invokes no body and calls the observer once with 'emptied',
\* its state and no err and no res: both are undefined, neither null nor the
\* last task's err or res.
C7_EmptiedWithUndefined ==
    \A r \in RunIds :
        runs[r].status = "emptied" => EmptiedWith(r, Undefined, Undefined)

C7_Witness ==
    \E r \in RunIds : \E e \in evaluated :
        /\ runs[r].status = "emptied"
        /\ Supplied(r)
        /\ Len(runs[r].stops) = 1
        /\ e.run = r
        /\ e.err = ErrX
        /\ e.tid = dispatched[Len(dispatched)].task.tid

\* C8: the observer of an invocation is called at most once, with 'stopped'
\* or 'emptied', which is then how the invocation ended; no observer, no call.
C8_OnStopAtMostOnce ==
    \A r \in RunIds :
        /\ Len(runs[r].stops) <= 1
        /\ \A j \in 1..Len(runs[r].stops) :
              /\ runs[r].stops[j].type \in {"stopped", "emptied"}
              /\ runs[r].stops[j].type = runs[r].status
        /\ ~Supplied(r) => runs[r].stops = <<>>

C8_Witness ==
    \E r \in RunIds :
        /\ Len(runs[r].stops) = 1
        /\ \E e \in evaluated : e.run = r /\ e.err = ErrX
        /\ \E i \in 1..Len(dispatched) :
              dispatched[i].run = r /\ dispatched[i].task.tid > runs[r].startTid

\* every invocation made so far has ended, its observer called if it has one
AllRunsEnded ==
    \A r \in RunIds :
        /\ runs[r].status \in {"stopped", "emptied"}
        /\ Supplied(r) => Len(runs[r].stops) = 1

\* C9: when every task in flight signals completion in the end, every
\* invocation ends as 'stopped' or 'emptied' with its observer, if it has
\* one, called: invocations are never forgotten and stay ended once ended,
\* and again and again all the invocations made so far have ended.
C9_EveryRunEnds ==
    /\ [][/\ Len(runs') >= Len(runs)
          /\ \A r \in RunIds :
                runs[r].status # "running" =>
                    runs'[r].status = runs[r].status]_vars
    /\ []<>AllRunsEnded

C9_Witness ==
    \E r \in RunIds :
        /\ Supplied(r)
        /\ Len(DispatchedBy(r)) = 2
        /\ runs[r].status = "emptied"
        /\ Len(runs[r].stops) = 1
        /\ thrown = 0

\* C10: a step that invokes a body has taken exactly that task, the head, out
\* of the queue first, so length() is one less than before; while tasks are
\* in flight length() changes only by a push, a removal or another dispatch;
\* a task in flight is never among the pending ones.
C10_DequeuedBeforeDispatch ==
    [][/\ Len(dispatched') > Len(dispatched) =>
              /\ Len(dispatched') = Len(dispatched) + 1
              /\ queue # <<>>
              /\ dispatched'[Len(dispatched')].task = Head(queue)
              /\ \E l \in listening' : l.task = Head(queue)
              /\ queue' = Tail(queue)
              /\ length(queue') = length(queue) - 1
       /\ (tid' = tid /\ removed' = removed /\ dispatched' = dispatched)
              => length(queue') = length(queue)
       /\ \A l \in listening' : l.task.tid \notin Tids(queue')]_vars

C10_Witness ==
    /\ Len(runs) = 1
    /\ Quiet(1)
    /\ runs[1].startLen = 2
    /\ Cardinality(listening) = 1
    /\ evaluated = {}
    /\ length(queue) = 1

\* the ids of the tasks whose bodies have been invoked
DispatchedTids == {dispatched[i].task.tid : i \in 1..Len(dispatched)}

\* the ids of the tasks in flight
ListeningTids == {l.task.tid : l \in listening}

\* C11: a push call that fails leaves the pending tasks, the id counter and
\* everything else as they were, and a push call that succeeds appends one
\* task whose id is the counter plus one, however many calls failed before.
C11_FailedPushChangesNothing ==
    [][/\ thrown' # thrown =>
              /\ thrown' = thrown + 1
              /\ UNCHANGED <<queue, tid, listening, runs, dispatched,
                             evaluated, removed, unheard, deepest, elsewhere>>
       /\ tid' # tid =>
              /\ thrown' = thrown
              /\ tid' = tid + 1
              /\ length(queue') = length(queue) + 1
              /\ SubSeq(queue', 1, Len(queue)) = queue
              /\ queue'[Len(queue')].tid = tid + 1]_vars

C11_Witness ==
    /\ thrown = 1
    /\ tid = 1
    /\ length(queue) = 1
    /\ queue[1].tid = 1

Ends(r, type) == runs[r].status = "running" /\ runs'[r].status = type

\* the step takes the first k pending tasks, in order, and invokes their bodies
TakesHead(k) ==
    /\ k <= Len(queue)
    /\ queue' = SubSeq(queue, k + 1, Len(queue))
    /\ Len(dispatched') = Len(dispatched) + k
    /\ \A i \in 1..k : dispatched'[Len(dispatched) + i].task = queue[i]

\* C14: when a run ends 'stopped' the tasks not yet dequeued stay pending in
\* their order (the queue loses only the tasks whose bodies the same step
\* invokes), and whichever run comes next (the observer's or a later call)
\* starts with the first of them; a task whose policy was evaluated is never
\* pending or in flight again and no body is invoked twice; when a run ends
\* 'emptied' nothing is pending, so a later run finds only what is pushed
\* afterwards.
C14_StoppedRunCanBeResumed ==
    /\ [](\A e \in evaluated :
              e.tid \notin Tids(queue) /\ e.tid \notin ListeningTids)
    /\ [](Cardinality(DispatchedTids) = Len(dispatched))
    /\ [][\A r \in RunIds :
              /\ Ends(r, "stopped") =>
                     TakesHead(Len(dispatched') - Len(dispatched))
              /\ Ends(r, "emptied") => queue' = <<>>]_vars
    /\ [][Len(runs') > Len(runs) =>
              TakesHead(Len(dispatched') - Len(dispatched))]_vars

C14_Witness ==
    /\ Len(runs) = 2
    /\ runs[1].status = "stopped"
    /\ ~Supplied(1)
    /\ runs[1].startTid = 2
    /\ runs[2].by = "user"
    /\ \E e \in Vetoes : e.run = 1 /\ e.tid = 1
    /\ Len(dispatched) = 2
    /\ dispatched[2].task.tid = 2
    /\ dispatched[2].run = 2
    /\ removed = {}

\* the evaluations the step adds
NewEvaluations == evaluated' \ evaluated

\* C15: a task taken out while pending is gone (not pending, not in flight,
\* its body never invoked); taking tasks out keeps the others in order and
\* leaves the tasks in flight, the runs and their histories as they were;
\* and when the policy of a task in flight continues and nothing is pending,
\* its run ends 'emptied' without invoking a body.
C15_RemovedNeverDispatched ==
    /\ [](removed \cap (DispatchedTids \cup ListeningTids \cup Tids(queue)) = {})
    /\ [][removed' # removed =>
              /\ queue' = SelectSeq(queue, LAMBDA t : t.tid \notin removed')
              /\ UNCHANGED <<listening, runs, dispatched, evaluated>>]_vars
    /\ [][\A l \in listening :
              (/\ queue = <<>>
               /\ \E e \in NewEvaluations :
                      e.tid = l.task.tid /\ e.ret # "false") =>
                  /\ l \notin listening'
                  /\ runs'[l.run].status = "emptied"
                  /\ dispatched' = dispatched]_vars

C15_Witness ==
    /\ removed = {2}
    /\ \E e \in evaluated :
           /\ e.tid = 1
           /\ e.ret # "false"
           /\ runs[e.run].startLen = 2
           /\ runs[e.run].status = "emptied"
           /\ DispatchedBy(e.run) = dispatched
    /\ Len(dispatched) = 1

\* C16: as long as a dispatched task has not signalled, its run stays as it
\* is: still running, its observer not invoked, no further body invoked by
\* it; and a step in which no task signals, no run is called and no task is
\* taken out by the user does not shorten the queue.
C16_SilentTaskStallsItsRun ==
    /\ [](\A l \in listening :
              runs[l.run].status = "running" /\ runs[l.run].stops = <<>>)
    /\ [][\A l \in listening \cap listening' :
              /\ runs'[l.run] = runs[l.run]
              /\ DispatchedBy(l.run)' = DispatchedBy(l.run)]_vars
    /\ [][(/\ listening \subseteq listening'
           /\ Len(runs') = Len(runs)
           /\ removed' = removed) => /\ Len(queue') >= Len(queue)
                                     /\ dispatched' = dispatched]_vars

C16_Witness ==
    \E l \in listening :
        /\ Supplied(l.run)
        /\ runs[l.run].stops = <<>>
        /\ runs[l.run].startTid < tid
        /\ Len(queue) = 1
        /\ DispatchedBy(l.run) = <<[task |-> l.task, run |-> l.run,
                                    state |-> l.state]>>

\* the completion policy of the dispatched task t
PolicyOf(t) ==
    LET i == CHOOSE j \in 1..Len(dispatched) : dispatched[j].task.tid = t
    IN  dispatched[i].task.complete

\* the calls of the observer of run r, as a set
StopsOf(r) == {runs[r].stops[j] : j \in 1..Len(runs[r].stops)}

\* each evaluation is the task's own policy applied to what the task signalled
PolicyGetsSignal ==
    \A e \in evaluated :
        e.ret = CallComplete(PolicyOf(e.tid), e.state, e.err, e.res)

\* C17 as stated: every error signalled in a run that has ended and has an
\* observer was passed to the task's policy and is the err of a call of that
\* observer.
C17_EveryErrorReachesOnStop ==
    /\ PolicyGetsSignal
    /\ \A e \in evaluated :
           (/\ e.err # Null
            /\ Supplied(e.run)
            /\ runs[e.run].status # "running") =>
               \E c \in StopsOf(e.run) : c.err = e.err

\* C17, amended: every signalled error is passed to the task's policy; the
\* observer receives exactly the errors and results of the evaluations that
\* returned false, in its 'stopped' calls, and undefined in its 'emptied'
\* calls, so an error whose policy continues is not delivered to it.
C17_OnlyVetoedErrorsReachOnStop ==
    /\ PolicyGetsSignal
    /\ \A e \in Vetoes :
           Supplied(e.run) =>
               \E c \in StopsOf(e.run) :
                   c.type = "stopped" /\ c.err = e.err /\ c.res = e.res
    /\ \A r \in RunIds : \A c \in StopsOf(r) :
           /\ c.type = "stopped" =>
                  \E e \in Vetoes :
                      e.run = r /\ e.err = c.err /\ e.res = c.res
           /\ c.type = "emptied" => c.err = Undefined /\ c.res = Undefined

C17_Witness ==
    \E e \in evaluated :
        /\ e.err = ErrX
        /\ e.ret # "false"
        /\ Supplied(e.run)
        /\ runs[e.run].status = "emptied"
        /\ \A c \in StopsOf(e.run) : c.err # ErrX
        /\ StopsOf(e.run) # {}

\* every task id the queue has handed out and the model still knows of
KnownTids ==
    Tids(queue) \cup ListeningTids \cup DispatchedTids \cup removed
        \cup {e.tid : e \in evaluated}

\* C18: the pending tasks carry strictly increasing ids from head to tail;
\* every id ever given lies in 1..tid; the counter never goes back, and a
\* new task gets the counter plus one, an id above every id given before,
\* whatever has been popped, cleared or run in between.
C18_TaskIdsStrictlyIncrease ==
    /\ [](\A i, j \in 1..Len(queue) : i < j => queue[i].tid < queue[j].tid)
    /\ [](KnownTids \subseteq 1..tid)
    /\ [][/\ tid' >= tid
          /\ \A t \in Tids(queue') \ Tids(queue) :
                 /\ t = tid + 1
                 /\ t = tid'
                 /\ \A k \in KnownTids : k < t]_vars

C18_Witness ==
    /\ removed = {1}
    /\ Len(queue) = 1
    /\ queue[1].tid = 2
    /\ dispatched = <<>>

\* every task the model knows of
KnownTasks ==
    {queue[i] : i \in 1..Len(queue)} \cup {l.task : l \in listening}
        \cup {dispatched[i].task : i \in 1..Len(dispatched)}

\* how many times the observers of the runs 1..k have been called
RECURSIVE OnStopCalls(_)
OnStopCalls(k) ==
    IF k = 0 THEN 0 ELSE Len(runs[k].stops) + OnStopCalls(k - 1)

\* the demo: N >= 1 tasks with the demo's policy are pushed, then run is
\* called once with the restart observer, and nothing else touches the queue
DemoScenario ==
    /\ UserRuns = 1
    /\ runs[1].onStop = "fullCompletion"
    /\ tid >= 1
    /\ runs[1].startTid = tid
    /\ runs[1].startLen = tid
    /\ removed = {}
    /\ \A t \in KnownTasks : t.complete = "complete"

\* nothing pending, nothing in flight, every run ended
DemoDone ==
    /\ length(queue) = 0
    /\ listening = {}
    /\ \A r \in RunIds : runs[r].status # "running"
    /\ Len(dispatched) = tid

\* C19: in the demo, whatever the tasks signal, the i-th body invoked is the
\* i-th task pushed, a task is pending only while another is in flight, the
\* observer is called at most N times over all runs, the demo, once done,
\* stays done with no further run, and done is eventually reached.
C19_DemoDrainsTheQueue ==
    /\ [](DemoScenario =>
              /\ \A i \in 1..Len(dispatched) : dispatched[i].task.tid = i
              /\ listening = {} => DemoDone
              /\ OnStopCalls(Len(runs)) <= tid
              /\ \A r \in RunIds : Len(runs[r].stops) <= 1)
    /\ [][(DemoScenario /\ DemoDone /\ DemoScenario') =>
              (DemoDone' /\ runs' = runs /\ dispatched' = dispatched)]_vars
    /\ (DemoScenario ~> (~DemoScenario \/ DemoDone))

C19_Witness ==
    /\ DemoScenario
    /\ DemoDone
    /\ tid = 2
    /\ Len(runs) = 2
    /\ OnStopCalls(Len(runs)) = 2
    /\ \E e \in Vetoes : e.tid = 1

\* C12: a task's policy is evaluated at most once, so there are never more
\* evaluations than bodies invoked; an evaluation is always the first one of
\* a task that was in flight or is dispatched in the same step; and the step
\* in which a repeated signal first goes unheard changes nothing else: no
\* policy, no observer, no dequeue, no dispatch.
C12_OnlyFirstSignalCounts ==
    /\ [](\A e \in evaluated : e.nth = 1 /\ Evaluations(evaluated, e.tid) = 1)
    /\ [](Cardinality(evaluated) <= Len(dispatched))
    /\ [][\A e \in NewEvaluations :
              /\ e.nth = 1
              /\ e.tid \in ListeningTids \/ e.tid \notin DispatchedTids]_vars
    /\ [][unheard' # unheard =>
              UNCHANGED <<queue, tid, listening, runs, dispatched, evaluated,
                          removed, thrown>>]_vars

C12_Witness ==
    /\ unheard
    /\ Len(dispatched) = 2
    /\ Cardinality(evaluated) = 1
    /\ \E l \in listening : l.task.tid = 2
    /\ \A r \in RunIds : runs[r].stops = <<>>

\* the run of evaluation e has gone on to a later task
WentOn(e) ==
    \E i \in 1..Len(dispatched) :
        dispatched[i].run = e.run /\ dispatched[i].task.tid > e.tid

\* what the body fn passes to emit before it returns
LastSignal(fn) ==
    IF fn = "lastErr" THEN [err |-> ErrX, res |-> Null]
                      ELSE [err |-> Null, res |-> ResR]

\* C20: no signal goes unheard; a task whose body signals before returning
\* is never left in flight: by the time run returns its policy has been
\* evaluated exactly once, with what the body signalled; and after any
\* evaluation, of a task that signalled early or late, the run has stopped
\* if the policy returned false and has otherwise gone on to a later task or
\* ended 'emptied'.
C20_EarlySignalIsHeard ==
    /\ ~unheard
    /\ \A i \in 1..Len(dispatched) :
           LET d == dispatched[i]
           IN  d.task.run \in LastFns =>
                   /\ d.task.tid \notin ListeningTids
                   /\ Evaluations(evaluated, d.task.tid) = 1
                   /\ \A e \in evaluated :
                          e.tid = d.task.tid =>
                              /\ e.run = d.run
                              /\ e.state = d.state
                              /\ e.err = LastSignal(d.task.run).err
                              /\ e.res = LastSignal(d.task.run).res
    /\ \A e \in evaluated :
           /\ e.ret = CallComplete(PolicyOf(e.tid), e.state, e.err, e.res)
           /\ IF e.ret = "false"
              THEN runs[e.run].status = "stopped" /\ ~WentOn(e)
              ELSE WentOn(e) \/ runs[e.run].status = "emptied"

C20_Witness ==
    /\ Len(dispatched) = 2
    /\ dispatched[1].task.run \in LastFns
    /\ dispatched[2].task.run = "body"
    /\ dispatched[1].run = dispatched[2].run
    /\ runs[dispatched[1].run].startLen = 2
    /\ \E e \in evaluated : e.tid = dispatched[1].task.tid
    /\ \E l \in listening : l.task = dispatched[2].task

\* the ids of the tasks whose policy has been evaluated
EvaluatedTids == {e.tid : e \in evaluated}

\* where the pushed tasks are: pending, in flight, completed, removed
Places == <<Tids(queue), ListeningTids, EvaluatedTids, removed>>

\* C24: no body is invoked twice, and every task pushed so far is in exactly
\* one place: pending, in flight, completed, or removed while pending; the
\* bodies invoked are those in flight and completed.
C24_EveryTaskInOnePlace ==
    /\ Cardinality(DispatchedTids) = Len(dispatched)
    /\ Places[1] \cup Places[2] \cup Places[3] \cup Places[4] = 1..tid
    /\ \A i, j \in 1..4 : i < j => Places[i] \cap Places[j] = {}
    /\ Len(queue) = Cardinality(Tids(queue))
    /\ DispatchedTids = ListeningTids \cup EvaluatedTids

C24_Witness ==
    /\ Cardinality(listening) = 2
    /\ \E l1, l2 \in listening : l1.run # l2.run

\* C25: a run call made by the user while a task is in flight and a task is
\* pending takes the head and invokes its body at once, so one more task is
\* in flight, under the new invocation; every task in flight belongs to a
\* running invocation and carries that invocation's state and observer, and
\* every invocation with an observer that has ended has called it once, with
\* its own state.
C25_RunWhileInFlight ==
    /\ [][(/\ Len(runs') > Len(runs)
           /\ runs'[Len(runs')].by = "user"
           /\ listening # {}
           /\ queue # <<>>) =>
              /\ Len(runs') = Len(runs) + 1
              /\ runs'[Len(runs')].status = "running"
              /\ queue' = Tail(queue)
              /\ Len(dispatched') = Len(dispatched) + 1
              /\ dispatched'[Len(dispatched')].task = Head(queue)
              /\ dispatched'[Len(dispatched')].run = Len(runs')
              /\ listening \subseteq listening'
              /\ Cardinality(listening') = Cardinality(listening) + 1
              /\ \E l \in listening' \ listening :
                     l.task = Head(queue) /\ l.run = Len(runs')]_vars
    /\ [](\A l \in listening :
              /\ runs[l.run].status = "running"
              /\ l.state = runs[l.run].state
              /\ l.onStop = runs[l.run].onStop)
    /\ [](\A r \in RunIds :
              (Supplied(r) /\ runs[r].status # "running") =>
                  /\ Len(runs[r].stops) = 1
                  /\ runs[r].stops[1].state = runs[r].state
                  /\ runs[r].stops[1].type = runs[r].status)

C25_Witness ==
    /\ Len(runs) = 2
    /\ Supplied(1) /\ Supplied(2)
    /\ runs[1].by = "user" /\ runs[2].by = "user"
    /\ runs[1].startLen = 2
    /\ removed = {}
    /\ tid = 2
    /\ runs[1].status = "emptied" /\ runs[2].status = "emptied"
    /\ Len(DispatchedBy(1)) = 1 /\ Len(DispatchedBy(2)) = 1
    /\ Len(runs[1].stops) = 1 /\ Len(runs[2].stops) = 1

\* the calls of its observer that the step adds to run r
NewStops(r) ==
    {runs'[r].stops[j] :
        j \in (IF r <= Len(runs) THEN Len(runs[r].stops) ELSE 0) + 1
                  ..Len(runs'[r].stops)}

\* C26: an 'emptied' call of an observer is made with nothing pending; a
\* 'stopped' call is made in the step in which a policy of that invocation
\* returned false, with that evaluation's state, error and result; and an
\* invocation with an observer whose policy returned false has called it
\* once, with 'stopped', also when nothing was pending any more.
C26_EmptiedOnlyWhenEmpty ==
    /\ [](\A r \in RunIds : \A c \in StopsOf(r) :
              c.type = "emptied" => c.len = 0)
    /\ [](\A e \in Vetoes :
              Supplied(e.run) =>
                  /\ Len(runs[e.run].stops) = 1
                  /\ runs[e.run].stops[1].type = "stopped"
                  /\ runs[e.run].status = "stopped")
    /\ [][\A r \in 1..Len(runs') : \A c \in NewStops(r) :
              c.type = "stopped" =>
                  \E e \in NewEvaluations :
                      /\ e.run = r
                      /\ e.ret = "false"
                      /\ e.state = c.state
                      /\ e.err = c.err
                      /\ e.res = c.res]_vars

C26_Witness ==
    \E r \in RunIds :
        /\ Len(runs[r].stops) = 1
        /\ runs[r].stops[1].type = "stopped"
        /\ runs[r].stops[1].len = 0
        /\ runs[r].startLen = 2
        /\ Len(DispatchedBy(r)) = 2
        /\ Len(runs) = 1

\* C23 as stated: however many tasks are queued, and also when their bodies
\* signal before they return, there are never more calls of run on the call
\* stack at once than a chain of a single such task needs (two: the call that
\* invokes the body, and the call its listener makes).
C23_NestingBounded == deepest <= 2

\* C22 as stated: in queue.js only the first call of a task's callback
\* counts: no policy is evaluated a second time, and every body invoked is
\* owed to a call of next by the user or to the first call of a callback
\* whose policy did not return false.
C22_CallbackGuarded ==
    /\ \A e \in cbq.evaluated : e.nth = 1
    /\ Len(cbq.dispatched) <=
           cbq.nexts + Cardinality({e \in cbq.evaluated :
                                       e.nth = 1 /\ e.ret # "false"})

(* C21: two queues obtained from create() are independent. A push, pop,
   shift, empty or run made on one of them leaves the other's pending
   sequence, its length() and its id counter as they were; each queue numbers
   its own tasks from 1; and a run on one queue never invokes the body of a
   task that was pushed on the other. *)
C21_QueuesIndependent ==
    /\ [](/\ \A i \in 1..Len(dispatched) : dispatched[i].task.run # "last"
          /\ \A i \in 1..Len(other.dispatched) :
                /\ other.dispatched[i].task.run = "last"
                /\ other.dispatched[i].task.tid \in 1..other.tid
          /\ Tids(other.queue) \subseteq 1..other.tid
          /\ Tids(queue) \subseteq 1..tid)
    /\ [][(PushOther \/ TakeOther \/ RunOther)
              => /\ UNCHANGED queueVars
                 /\ length(queue') = length(queue)]_vars
    /\ [][Next => /\ other' = other
                  /\ length(other.queue') = length(other.queue)]_vars
    /\ [][PushOther => /\ other.tid' = other.tid + 1
                       /\ Tids(other.queue') =
                              Tids(other.queue) \cup {other.tid'}]_vars

\* the second queue has run its task 1 while task 1 of the first queue is
\* still pending and nothing of the first queue was dispatched
C21_Witness ==
    /\ Len(other.dispatched) = 1
    /\ other.dispatched[1].task.tid = 1
    /\ other.queue = <<>>
    /\ Tids(queue) = {1}
    /\ dispatched = <<>>

====
